---------------------------- MODULE Spec2Model ----------------------------
(***************************************************************************)
(* A model of nob.py: the leveled console/file logger (class Log) and the  *)
(* shell command builder/runner (class Cmd).                               *)
(*                                                                         *)
(* Text is modelled as a sequence of tokens (a token is a string that the  *)
(* program never looks inside); the separators the program adds itself     *)
(* (" ", "\n", the ANSI colour codes) are tokens of their own, so that     *)
(* joining, formatting and stripping are computed, not assumed.            *)
(***************************************************************************)
EXTENDS Integers, Sequences, FiniteSets, TLC

VARIABLES
    op,          \* the operation performed last
    clock,       \* the wall-clock second that datetime.now() reads
    writable,    \* whether the file at LogPath can be opened for appending
    file,        \* the content of the file at LogPath
    fileBefore,  \* the content of that file before the last operation
    history,     \* the messages that passed the filter of a logger on LogPath
    logger,      \* the Log instance that log() was last called on
    content,     \* the argument of the last log() call
    printed,     \* the lines the last operation printed to the console
    cmd,         \* the Cmd instance
    checkArg,    \* the check_returncode argument of the last run()
    executed,    \* the command string the last run() handed to the shell
    proc,        \* what the shell and the child process did in the last run()
    ret,         \* how the last operation ended: its result, or what it raised
    cmd2,        \* a second Cmd instance, built with one add_flags call
    argPre,      \* flags both instances receive first
    argA,        \* first flag list
    argB,        \* second flag list
    pc           \* position of the add_flags comparison

vars == <<op, clock, writable, file, fileBefore, history, logger, content,
          printed, cmd, checkArg, executed, proc, ret,
          cmd2, argPre, argA, argB, pc>>

logVars  == <<writable, file, fileBefore, history, logger, content>>
cmdVars  == <<cmd, checkArg, executed, proc>>
flagVars == <<cmd2, argPre, argA, argB, pc>>

----------------------------------------------------------------------------
(* Bounds *)

MaxLogged == 2      \* log() calls go on until this many messages went to LogPath
MaxFlags == 2       \* flags held by the Cmd of SpecCmd
MaxFlagList == 2    \* length of one list passed to add_flags

----------------------------------------------------------------------------
(* Constants of the program *)

ANSI_RESET        == "ESC[0m"
ANSI_GREEN        == "ESC[32m"
ANSI_YELLOW       == "ESC[33m"
ANSI_RED          == "ESC[31m"
ANSI_CYAN         == "ESC[36m"
ANSI_BRIGHT_GREEN == "ESC[92m"

ANSI == {ANSI_RESET, ANSI_GREEN, ANSI_YELLOW, ANSI_RED, ANSI_CYAN,
         ANSI_BRIGHT_GREEN}

LogType == {"DEBUG", "INFO", "WARNING", "ERROR", "SUCCESS"}

LogTypeValue(t) ==
    CASE t = "DEBUG"   -> 0
      [] t = "INFO"    -> 1
      [] t = "WARNING" -> 2
      [] t = "ERROR"   -> 3
      [] t = "SUCCESS" -> 4

----------------------------------------------------------------------------
(* Inputs *)

None == "None"
LogPath == "build.log"
Paths == {None, LogPath}

\* datetime.now().strftime("%Y-%m-%d %H:%M:%S"): the calls of one behaviour
\* fall within one second, which is either of these
Times == {"2026-11-01 13:25:46", "2026-11-01 13:25:47"}

\* message texts: a one-line message and one holding a line break
Contents == { <<"a">>, <<"a", "\n", "b">> }

Commands == {"cc", "nosuchcmd"}
\* whether the shell finds an executable for the base command
Exists(command) == command # "nosuchcmd"

FlagTokens == {"-o", "x"}

SeqsUpTo(S, n) == UNION { [1..k -> S] : k \in 0..n }

FlagLists == SeqsUpTo(FlagTokens, MaxFlagList)

----------------------------------------------------------------------------
(* class Log *)

Log(type, log_level, log_file_path) ==
    [type |-> type, log_level |-> log_level, log_file_path |-> log_file_path]

get_color(self) ==
    CASE self.type = "DEBUG"   -> ANSI_CYAN
      [] self.type = "INFO"    -> ANSI_GREEN
      [] self.type = "WARNING" -> ANSI_YELLOW
      [] self.type = "ERROR"   -> ANSI_RED
      [] self.type = "SUCCESS" -> ANSI_BRIGHT_GREEN
      [] OTHER                 -> ANSI_RESET

format_content(self, text, now) ==
    <<get_color(self), "[", now, " ", self.type, "]: ">> \o text \o <<ANSI_RESET>>

plain_content_for_file(self, text, now) ==
    <<"[", now, " ", self.type, "]: ">> \o text \o <<"\n">>

\* the early return of log(): the instance's type is below its log_level
BelowLevel_le(self) == LogTypeValue(self.type) <= LogTypeValue(self.log_level)
BelowLevel(self) == LogTypeValue(self.type) < LogTypeValue(self.log_level)

\* `if self.log_file_path:' : None and the empty string are falsy
PathSet(self) == self.log_file_path # None /\ self.log_file_path # ""

\* open(path, 'a') and write: the text goes after what the file holds
AppendWrite_truncate(old, text) == text
AppendWrite(old, text) == old \o text

\* str(e) of the IOError that open() raised
IOErrorText == "[Errno 13] Permission denied"

FailedToWrite(self) ==
    <<"Failed to write to log file '", self.log_file_path, "': ", IOErrorText>>

\* what a logger with no file path prints for one log() call
ConsoleOnly(self, text, now) ==
    IF BelowLevel(self) THEN <<>> ELSE << format_content(self, text, now) >>

\* log(): the console lines printed and the new content of the file
Log_log(self, text, now, canWrite, old) ==
    IF BelowLevel(self)
    THEN [console |-> <<>>, file |-> old]
    ELSE LET formatted_content == format_content(self, text, now)
             plain == plain_content_for_file(self, text, now)
         IN  IF PathSet(self)
             THEN IF canWrite
                  THEN [console |-> <<formatted_content>>,
                        file    |-> AppendWrite(old, plain)]
                  ELSE LET error_logger == Log("ERROR", self.log_level, None)
                       IN  [console |-> <<formatted_content>> \o
                                ConsoleOnly(error_logger, FailedToWrite(self), now),
                            file    |-> old]
             ELSE [console |-> <<formatted_content>>, file |-> old]

----------------------------------------------------------------------------
(* Reading a console line back *)

SeverityOf(line) == line[5]
ColourOf(line) == line[1]
TextOf(line) == SubSeq(line, 7, Len(line) - 1)

NoResult == [kind |-> "none", exc |-> "", returncode |-> -1,
             stdout |-> <<>>, stderr |-> <<>>]
Returned == [NoResult EXCEPT !.kind = "returned"]

NoProcess == [kind |-> "none", returncode |-> -1, stdout |-> <<>>, stderr |-> <<>>]

----------------------------------------------------------------------------
(* class Cmd *)

Cmd(command) ==
    [command |-> command, flags |-> <<>>, logger |-> Log("INFO", "DEBUG", None)]

\* self.flags.extend(flags)
add_flags_prepend(self, flags) == [self EXCEPT !.flags = flags \o @]
add_flags(self, flags) == [self EXCEPT !.flags = @ \o flags]

RECURSIVE Join(_, _)
\* sep.join(tokens)
Join(tokens, sep) ==
    IF tokens = <<>> THEN <<>>
    ELSE IF Len(tokens) = 1 THEN <<tokens[1]>>
    ELSE <<tokens[1], sep>> \o Join(Tail(tokens), sep)

\* f"{self.command} {' '.join(self.flags)}"
full_command(self) == <<self.command, " ">> \o Join(self.flags, " ")

Whitespace == {" ", "\n"}

RECURSIVE lstrip(_)
lstrip(text) ==
    IF text # <<>> /\ Head(text) \in Whitespace THEN lstrip(Tail(text)) ELSE text

RECURSIVE rstrip(_)
rstrip(text) ==
    IF text # <<>> /\ text[Len(text)] \in Whitespace
    THEN rstrip(SubSeq(text, 1, Len(text) - 1))
    ELSE text

\* str.strip()
strip(text) == rstrip(lstrip(text))

\* What can happen when the command string is handed to the shell.  With
\* shell=True the program that is started is the shell: a base command with
\* no executable makes the shell exit with code 127 and a message on stderr.
\* Starting the shell itself can fail (FileNotFoundError, or another fault).
Stdouts == { <<>>, <<"\n">>, <<"hi", "\n">> }
Stderrs == { <<>>, <<"warn", "\n">> }
ExitCodes == {0, 1}

ProcessOutcomes(command) ==
    (IF Exists(command)
     THEN { [kind |-> "exit", returncode |-> rc, stdout |-> o, stderr |-> e] :
                rc \in ExitCodes, o \in Stdouts, e \in Stderrs }
     ELSE { [kind |-> "exit", returncode |-> 127, stdout |-> <<>>,
             stderr |-> <<"/bin/sh: 1: ", command, ": not found", "\n">>] })
    \cup { [NoProcess EXCEPT !.kind = k] : k \in {"FileNotFoundError", "Exception"} }

\* subprocess.run(full_command, capture_output=True, text=True, shell=True,
\*                check=check_returncode)
subprocess_run_nocheck(check_returncode, p) ==
    IF p.kind = "exit"
    THEN [kind |-> "returned", exc |-> "", returncode |-> p.returncode,
          stdout |-> p.stdout, stderr |-> p.stderr]
    ELSE [NoResult EXCEPT !.kind = "raised", !.exc = p.kind]
subprocess_run(check_returncode, p) ==
    IF p.kind = "exit"
    THEN IF check_returncode /\ p.returncode # 0
         THEN [kind |-> "raised", exc |-> "CalledProcessError",
               returncode |-> p.returncode, stdout |-> p.stdout, stderr |-> p.stderr]
         ELSE [kind |-> "returned", exc |-> "", returncode |-> p.returncode,
               stdout |-> p.stdout, stderr |-> p.stderr]
    ELSE [NoResult EXCEPT !.kind = "raised", !.exc = p.kind]

\* str(e) of a CalledProcessError
CalledProcessErrorText(full, returncode) ==
    <<"Command '">> \o full \o <<"' returned non-zero exit status ", ToString(returncode), ".">>

\* the severity of the status message of a completed command
StatusType_nonneg(returncode) == IF returncode >= 0 THEN "SUCCESS" ELSE "WARNING"
StatusType(returncode) == IF returncode = 0 THEN "SUCCESS" ELSE "WARNING"

Keep == "keep"
Step(type, text) == [type |-> type, text |-> text]

\* The messages run() logs after the "Running command" line, in order, each
\* with the value it first assigns to self.logger.type (Keep: none assigned).
RunSteps(self, full, r) ==
    IF r.kind = "returned"
    THEN (IF r.returncode = 0
          THEN << Step(StatusType(r.returncode),
                       <<"Command '", self.command, "' completed successfully.">>) >>
          ELSE << Step(StatusType(r.returncode),
                       <<"Command '", self.command, "' exited with code ",
                         ToString(r.returncode), ".">>) >>)
         \o (IF r.stdout # <<>>
             THEN << Step("INFO", <<"--- STDOUT ---", "\n">> \o strip(r.stdout)) >>
             ELSE <<>>)
         \o (IF r.stderr # <<>>
             THEN << Step("ERROR", <<"--- STDERR ---", "\n">> \o strip(r.stderr)) >>
             ELSE <<>>)
    ELSE IF r.exc = "CalledProcessError"
    THEN << Step("ERROR", <<"Command '", self.command, "' failed with error: ">>
                          \o CalledProcessErrorText(full, r.returncode)) >>
         \o (IF r.stdout # <<>>
             THEN << Step(Keep, <<"--- STDOUT ---", "\n">> \o strip(r.stdout)) >>
             ELSE <<>>)
         \o (IF r.stderr # <<>>
             THEN << Step(Keep, <<"--- STDERR ---", "\n">> \o strip(r.stderr)) >>
             ELSE <<>>)
    ELSE IF r.exc = "FileNotFoundError"
    THEN << Step("ERROR", <<"Command '", self.command,
                            "' not found. Please ensure it is in your PATH.">>) >>
    ELSE << Step("ERROR", <<"An unexpected error occurred while running command '",
                            self.command, "': ", "<", r.exc, ">">>) >>

RECURSIVE Play(_, _, _, _, _)
\* the steps carried out in order on logger lg: assign the type, then log()
Play(lg, steps, now, canWrite, old) ==
    IF steps = <<>>
    THEN [logger |-> lg, console |-> <<>>, file |-> old]
    ELSE LET s == Head(steps)
             lg1 == IF s.type = Keep THEN lg ELSE [lg EXCEPT !.type = s.type]
             r == Log_log(lg1, s.text, now, canWrite, old)
             rest == Play(lg1, Tail(steps), now, canWrite, r.file)
         IN  [logger |-> rest.logger,
              console |-> r.console \o rest.console,
              file |-> rest.file]

\* the Cmd after run(): run() assigns only self.logger.type
SelfAfterRun_clears(self, lg) == [self EXCEPT !.logger = lg, !.flags = <<>>]
SelfAfterRun(self, lg) == [self EXCEPT !.logger = lg]

\* run(check_returncode), the child process behaving as p
Cmd_run(self, check_returncode, p, now, canWrite, old) ==
    LET full == full_command(self)
        r == subprocess_run(check_returncode, p)
        steps == << Step("INFO", <<"Running command: '">> \o full \o <<"'...">>) >>
                 \o RunSteps(self, full, r)
        played == Play(self.logger, steps, now, canWrite, old)
    IN  [self |-> SelfAfterRun(self, played.logger),
         executed |-> full,
         console |-> played.console,
         file |-> played.file,
         ret |-> r]

----------------------------------------------------------------------------
(* The logger on its own *)

InitIdle ==
    /\ printed = <<>>
    /\ ret = NoResult

InitLogVars ==
    /\ file = <<>>
    /\ fileBefore = <<>>
    /\ history = <<>>
    /\ logger = Log("INFO", "DEBUG", None)
    /\ content = <<>>

InitCmdVars ==
    /\ cmd = Cmd("cc")
    /\ checkArg = FALSE
    /\ executed = <<>>
    /\ proc = NoProcess

InitFlagVars ==
    /\ cmd2 = Cmd("cc")
    /\ argPre = <<>>
    /\ argA = <<>>
    /\ argB = <<>>
    /\ pc = "off"

InitLog ==
    /\ op = "init"
    /\ clock \in Times
    /\ writable \in BOOLEAN
    /\ InitLogVars
    /\ InitIdle
    /\ InitCmdVars
    /\ InitFlagVars

\* Log(type, log_level, log_file_path).log(text)
LogCall(type, log_level, log_file_path, text) ==
    LET self == Log(type, log_level, log_file_path)
        r == Log_log(self, text, clock, writable, file)
        counts == ~BelowLevel(self) /\ log_file_path = LogPath
    IN  /\ Len(history) < MaxLogged
        /\ op' = "log"
        /\ logger' = self
        /\ content' = text
        /\ printed' = r.console
        /\ fileBefore' = file
        /\ file' = r.file
        /\ history' = IF counts
                      THEN Append(history, [type |-> type, text |-> text, now |-> clock])
                      ELSE history
        /\ ret' = Returned
        /\ UNCHANGED <<clock, writable>>
        /\ UNCHANGED cmdVars
        /\ UNCHANGED flagVars

NextLog ==
    \E type \in LogType, log_level \in LogType, path \in Paths, text \in Contents :
        LogCall(type, log_level, path, text)

SpecLog == InitLog /\ [][NextLog]_vars


----------------------------------------------------------------------------
(* Properties of the logger *)

RECURSIVE SplitLines(_)
\* the lines of a text, each ended by a line break
SplitLines(text) ==
    IF text = <<>> THEN <<>>
    ELSE LET k == CHOOSE i \in 1..(Len(text) + 1) :
                     /\ i = Len(text) + 1 \/ text[i] = "\n"
                     /\ \A j \in 1..(i - 1) : text[j] # "\n"
         IN  IF k > Len(text) THEN <<text>>
             ELSE <<SubSeq(text, 1, k - 1)>> \o SplitLines(SubSeq(text, k + 1, Len(text)))

\* the line a message of severity type is to take in the file
ExpectedLine(h) == <<"[", h.now, " ", h.type, "]: ">> \o h.text

RECURSIVE ExpectedFile(_)
ExpectedFile(hs) ==
    IF hs = <<>> THEN <<>>
    ELSE ExpectedLine(Head(hs)) \o <<"\n">> \o ExpectedFile(Tail(hs))

IsPrefix(s, t) == Len(s) <= Len(t) /\ SubSeq(t, 1, Len(s)) = s

OneLine(text) == \A i \in 1..Len(text) : text[i] # "\n"

Passed == LogTypeValue(logger.type) >= LogTypeValue(logger.log_level)

\* the console shows the message of the last log() call, in its severity
ConsoleHasMessage ==
    /\ printed # <<>>
    /\ SeverityOf(printed[1]) = logger.type
    /\ TextOf(printed[1]) = content

\* the last log() call put the message's plain line at the end of the file
FileHasMessage ==
    file = fileBefore \o ExpectedLine([now |-> clock, type |-> logger.type,
                                       text |-> content]) \o <<"\n">>

\* C1 as stated: log(message) emits the message, to the console and to the
\* file when a path is configured, if and only if S >= L; when S < L nothing
\* is emitted to the console or the file.
C1_AsStated ==
    op = "log" =>
        IF Passed
        THEN /\ ConsoleHasMessage
             /\ logger.log_file_path # None => FileHasMessage
        ELSE /\ printed = <<>>
             /\ file = fileBefore

\* C1 amended: the message reaches the console if and only if S >= L, and
\* reaches the file if and only if S >= L, a path is configured and the
\* append succeeds; otherwise the file is left as it was, and when S < L
\* nothing is emitted at all.
C1_LevelFilter ==
    op = "log" =>
        /\ Passed => ConsoleHasMessage
        /\ ~Passed => printed = <<>>
        /\ (Passed /\ logger.log_file_path # None /\ writable) => FileHasMessage
        /\ ~(Passed /\ logger.log_file_path # None /\ writable) => file = fileBefore

C1_Witness ==
    /\ op = "log"
    /\ logger.type = "WARNING"
    /\ logger.log_level = "WARNING"
    /\ logger.log_file_path = LogPath
    /\ writable
    /\ Len(fileBefore) > 0
    /\ Len(file) > Len(fileBefore)

\* C4: when the append to the log file fails for a message that passed the
\* level filter, whatever the minimum level, a secondary logger emits a
\* message describing the failure at ERROR severity and log() returns
\* normally.
C4_WriteFailureReported ==
    (op = "log" /\ Passed /\ logger.log_file_path # None /\ ~writable) =>
        /\ ret.kind = "returned"
        /\ \E i \in 1..Len(printed) :
              /\ SeverityOf(printed[i]) = "ERROR"
              /\ TextOf(printed[i]) = FailedToWrite(logger)

\* C8 as stated: on a writable path the file holds exactly one line per
\* message that passed the level filter, in call order, each of the form
\* [timestamp SEVERITY]: message, with no ANSI escape codes, and existing
\* content is never truncated or rewritten.
C8_AsStated ==
    writable =>
        /\ Len(SplitLines(file)) = Len(history)
        /\ \A i \in 1..Len(history) : SplitLines(file)[i] = ExpectedLine(history[i])
        /\ \A i \in 1..Len(file) : file[i] \notin ANSI
        /\ IsPrefix(fileBefore, file)

\* C8 amended: on a writable path the file is, in call order, one record
\* "[timestamp SEVERITY]: message" plus a line break per message that passed
\* the level filter, the logger adds no ANSI escape code, and existing
\* content is never truncated or rewritten; a message without a line break
\* takes exactly one line, so that such messages give one line each.
C8_FileRecords ==
    writable =>
        /\ file = ExpectedFile(history)
        /\ \A i \in 1..Len(file) : file[i] \notin ANSI
        /\ IsPrefix(fileBefore, file)
        /\ (\A i \in 1..Len(history) : OneLine(history[i].text)) =>
              /\ Len(SplitLines(file)) = Len(history)
              /\ \A i \in 1..Len(history) :
                    SplitLines(file)[i] = ExpectedLine(history[i])

C8_Witness ==
    /\ writable
    /\ Len(history) = 2
    /\ OneLine(history[1].text)
    /\ OneLine(history[2].text)
    /\ history[1].type # history[2].type
    /\ Len(SplitLines(file)) = 2

----------------------------------------------------------------------------
(* The command runner *)

InitCmd ==
    /\ op = "init"
    /\ clock \in Times
    /\ writable \in BOOLEAN
    /\ InitLogVars
    /\ InitIdle
    /\ \E command \in Commands : cmd = Cmd(command)
    /\ checkArg = FALSE
    /\ executed = <<>>
    /\ proc = NoProcess
    /\ InitFlagVars

\* cmd.add_flags(flags)
AddFlags(flags) ==
    /\ Len(cmd.flags) + Len(flags) <= MaxFlags
    /\ op' = "add_flags"
    /\ cmd' = add_flags(cmd, flags)
    /\ printed' = <<>>
    /\ ret' = Returned
    /\ UNCHANGED <<clock, checkArg, executed, proc>>
    /\ UNCHANGED logVars
    /\ UNCHANGED flagVars

\* cmd.run(check_returncode)
Run(check_returncode, p) ==
    LET r == Cmd_run(cmd, check_returncode, p, clock, writable, file)
    IN  /\ op' = "run"
        /\ cmd' = r.self
        /\ checkArg' = check_returncode
        /\ proc' = p
        /\ executed' = r.executed
        /\ printed' = r.console
        /\ ret' = r.ret
        /\ fileBefore' = file
        /\ file' = r.file
        /\ UNCHANGED <<clock, writable, history, logger, content>>
        /\ UNCHANGED flagVars

NextCmd ==
    \/ \E flags \in FlagLists : AddFlags(flags)
    \/ \E check_returncode \in BOOLEAN, p \in ProcessOutcomes(cmd.command) :
          Run(check_returncode, p)

SpecCmd == InitCmd /\ [][NextCmd]_vars

----------------------------------------------------------------------------
(* Properties of the command runner *)

\* a line of the given severity and text is among the lines printed
Shown(type, text) ==
    \E i \in 1..Len(printed) : SeverityOf(printed[i]) = type /\ TextOf(printed[i]) = text

ShownText(text) == \E i \in 1..Len(printed) : TextOf(printed[i]) = text

ExitedText(n) == <<"Command '", cmd.command, "' exited with code ", ToString(n), ".">>
CompletedText == <<"Command '", cmd.command, "' completed successfully.">>
NotFoundText == <<"Command '", cmd.command, "' not found. Please ensure it is in your PATH.">>
FailedText(n) ==
    <<"Command '", cmd.command, "' failed with error: ", "Command '">> \o executed
        \o <<"' returned non-zero exit status ", ToString(n), ".">>
StdoutText == <<"--- STDOUT ---", "\n">> \o strip(proc.stdout)
StderrText == <<"--- STDERR ---", "\n">> \o strip(proc.stderr)

IsStatusLine(line) ==
    \/ TextOf(line) = CompletedText
    \/ \E n \in ExitCodes \cup {127} : TextOf(line) = ExitedText(n)

\* C2: run() on a base command with no executable logs at ERROR severity and
\* signals FileNotFoundError, whatever check_returncode is; it returns no
\* result.
C2_NotFoundSignalled ==
    (op = "run" /\ ~Exists(cmd.command)) =>
        /\ ret.kind = "raised"
        /\ ret.exc = "FileNotFoundError"
        /\ Shown("ERROR", NotFoundText)

\* C3 as stated: run(check_returncode=True) on a command exiting with a
\* non-zero code N logs the WARNING message "exited with code N" and the
\* ERROR lines, and then signals CalledProcessError to the caller.
C3_AsStated ==
    (op = "run" /\ checkArg /\ proc.kind = "exit" /\ proc.returncode # 0) =>
        /\ Shown("WARNING", ExitedText(proc.returncode))
        /\ \E i \in 1..Len(printed) : SeverityOf(printed[i]) = "ERROR"
        /\ ret.kind = "raised"
        /\ ret.exc = "CalledProcessError"

\* C3 amended: run(check_returncode=True) on a command exiting with a
\* non-zero code N logs no WARNING line; after the "Running command" line it
\* logs the ERROR message "failed with error: ..." and then the non-empty
\* captured streams, and the call ends by signalling CalledProcessError,
\* carrying the exit code, to the caller.
C3_FailureLoggedThenRaised ==
    (op = "run" /\ checkArg /\ proc.kind = "exit" /\ proc.returncode # 0) =>
        /\ \A i \in 1..Len(printed) : SeverityOf(printed[i]) # "WARNING"
        /\ Len(printed) >= 2
        /\ SeverityOf(printed[2]) = "ERROR"
        /\ TextOf(printed[2]) = FailedText(proc.returncode)
        /\ proc.stdout # <<>> => ShownText(StdoutText)
        /\ proc.stderr # <<>> => ShownText(StderrText)
        /\ Len(printed) = 2 + (IF proc.stdout # <<>> THEN 1 ELSE 0)
                            + (IF proc.stderr # <<>> THEN 1 ELSE 0)
        /\ ret.kind = "raised"
        /\ ret.exc = "CalledProcessError"
        /\ ret.returncode = proc.returncode

C3_Witness ==
    /\ op = "run"
    /\ checkArg
    /\ proc.kind = "exit"
    /\ proc.returncode = 1
    /\ proc.stdout # <<>>
    /\ proc.stderr # <<>>
    /\ ret.kind = "raised"
    /\ Len(printed) = 4

\* C5: whenever the subprocess was executed, whatever check_returncode and
\* the exit code are, non-empty stdout is logged at INFO and non-empty stderr
\* at ERROR, each under its header; an empty stream gives no message.
C5_StreamsLogged ==
    (op = "run" /\ proc.kind = "exit") =>
        /\ proc.stdout # <<>> => Shown("INFO", StdoutText)
        /\ proc.stderr # <<>> => Shown("ERROR", StderrText)
        /\ proc.stdout = <<>> =>
              ~ \E i \in 1..Len(printed) : TextOf(printed[i])[1] = "--- STDOUT ---"
        /\ proc.stderr = <<>> =>
              ~ \E i \in 1..Len(printed) : TextOf(printed[i])[1] = "--- STDERR ---"

\* C7: the command string run() executes is the base command followed by the
\* flags, one single space between adjacent tokens and nothing else: no
\* leading or trailing separator, also when there are no flags.
C7_SingleSpaces ==
    op = "run" => executed = Join(<<cmd.command>> \o cmd.flags, " ")

\* C9: with check_returncode not set run() never signals CalledProcessError:
\* for every exit code it logs exactly one status message, SUCCESS
\* ("completed successfully") iff the code is 0 and WARNING ("exited with
\* code N") otherwise, and returns the captured exit code, stdout and stderr
\* unchanged.
C9_UncheckedRun ==
    (op = "run" /\ ~checkArg) =>
        /\ ret.exc # "CalledProcessError"
        /\ proc.kind = "exit" =>
              /\ ret.kind = "returned"
              /\ ret.returncode = proc.returncode
              /\ ret.stdout = proc.stdout
              /\ ret.stderr = proc.stderr
              /\ Cardinality({i \in 1..Len(printed) : IsStatusLine(printed[i])}) = 1
              /\ proc.returncode = 0 <=> Shown("SUCCESS", CompletedText)
              /\ proc.returncode # 0 <=> Shown("WARNING", ExitedText(proc.returncode))
              /\ \A i \in 1..Len(printed) :
                    IsStatusLine(printed[i]) =>
                        SeverityOf(printed[i]) =
                            (IF proc.returncode = 0 THEN "SUCCESS" ELSE "WARNING")

C9_Witness ==
    /\ op = "run"
    /\ ~checkArg
    /\ proc.kind = "exit"
    /\ proc.returncode = 1
    /\ ret.kind = "returned"
    /\ ret.stdout = <<"hi", "\n">>
    /\ Shown("WARNING", ExitedText(1))

\* C10: run() leaves the base command and the flags unchanged on every path,
\* so consecutive run() calls execute the identical command string; of the
\* Cmd's state it changes only the type of the owned logger, which it leaves
\* at the severity of the last message logged.
C10_RunFrame ==
    [][op' = "run" =>
          /\ cmd'.command = cmd.command
          /\ cmd'.flags = cmd.flags
          /\ cmd'.logger.log_level = cmd.logger.log_level
          /\ cmd'.logger.log_file_path = cmd.logger.log_file_path
          /\ printed' # <<>>
          /\ cmd'.logger.type = SeverityOf(printed'[Len(printed')])
          /\ executed' = full_command(cmd')
          /\ op = "run" => executed' = executed]_vars

C10_Witness ==
    /\ op = "run"
    /\ ret.kind = "raised"
    /\ ret.exc = "Exception"
    /\ Len(cmd.flags) = 2
    /\ executed = <<cmd.command, " ", cmd.flags[1], " ", cmd.flags[2]>>
    /\ cmd.logger.type = "ERROR"

----------------------------------------------------------------------------
(* add_flags twice against add_flags once *)

InitFlags ==
    /\ op = "init"
    /\ clock \in Times
    /\ writable = TRUE
    /\ InitLogVars
    /\ InitIdle
    /\ \E command \in Commands : cmd = Cmd(command) /\ cmd2 = Cmd(command)
    /\ checkArg = FALSE
    /\ executed = <<>>
    /\ proc = NoProcess
    /\ argPre \in FlagLists
    /\ argA \in FlagLists
    /\ argB \in FlagLists
    /\ pc = "pre"

FlagFrame ==
    /\ op' = "add_flags"
    /\ UNCHANGED <<clock, checkArg, executed, proc, printed, ret, argPre, argA, argB>>
    /\ UNCHANGED logVars

\* both instances: add_flags(argPre)
FlagsBefore ==
    /\ pc = "pre"
    /\ cmd' = add_flags(cmd, argPre)
    /\ cmd2' = add_flags(cmd2, argPre)
    /\ pc' = "first"
    /\ FlagFrame

\* cmd.add_flags(argA)
FlagsFirst ==
    /\ pc = "first"
    /\ cmd' = add_flags(cmd, argA)
    /\ pc' = "second"
    /\ UNCHANGED cmd2
    /\ FlagFrame

\* cmd.add_flags(argB)
FlagsSecond ==
    /\ pc = "second"
    /\ cmd' = add_flags(cmd, argB)
    /\ pc' = "once"
    /\ UNCHANGED cmd2
    /\ FlagFrame

\* cmd2.add_flags(argA + argB)
FlagsOnce ==
    /\ pc = "once"
    /\ cmd2' = add_flags(cmd2, argA \o argB)
    /\ pc' = "done"
    /\ UNCHANGED cmd
    /\ FlagFrame

NextFlags == FlagsBefore \/ FlagsFirst \/ FlagsSecond \/ FlagsOnce

SpecFlags == InitFlags /\ [][NextFlags]_vars

\* C6: add_flags(A) followed by add_flags(B) leaves a Cmd in the same state,
\* with the same flag sequence and so the same command string, as one
\* add_flags(A + B) on a Cmd with the same base command; the flags keep the
\* order in which they were added.
C6_AddFlagsConcat ==
    pc = "done" =>
        /\ cmd = cmd2
        /\ cmd.flags = argPre \o argA \o argB
        /\ full_command(cmd) = full_command(cmd2)

C6_Witness ==
    /\ pc = "done"
    /\ argPre # <<>>
    /\ Len(argA) = 2
    /\ Len(argB) = 1
    /\ argA[1] # argA[2]
    /\ argB[1] = argA[1]
    /\ Len(cmd.flags) = Len(argPre) + 3

=============================================================================
